---- MODULE Spec2Model ----
\* Model of the SecTriageBot ticket tooling (Luv1881/LLM-tickets):
\*   validate_tickets.py  apply_decision_logic, validate_dataset, print_report
\*   fix_tickets.py       apply_decision_logic, generate_comment
\*   generate_tickets.py  the fact catalogs and the global random state
\* Python strings are TLA+ strings; substring tests, str.lower and str.strip
\* are computed character by character.
EXTENDS Integers, Sequences, FiniteSets, TLC

VARIABLES
    data,            \* the fact bundle handed to the engine (ticket["data"])
    rng,             \* state of Python's global random generator
    expected_label,  \* last return value of validate_tickets.apply_decision_logic
    correct_label,   \* last return value of fix_tickets.apply_decision_logic
    comment,         \* last return value of fix_tickets.generate_comment
    labels_seen,     \* <<rng, label>> of every call of fix_tickets.apply_decision_logic
    comments_seen,   \* <<rng, label, text>> of every call of generate_comment
    corpus,          \* the lines of the JSONL file read by validate_dataset
    line_num,        \* number of lines validate_dataset has consumed
    results,         \* the results dict of validate_dataset
    vstate,          \* "running", "returned", "reported" or "error"
    accuracy,        \* overall accuracy computed by print_report, in 1/100 percent
    f_pos,           \* number of lines fix_dataset has consumed
    output,          \* the lines fix_dataset has written to the output file
    fixed_count,     \* fixed_count of fix_dataset
    fix_total,       \* total of fix_dataset
    fix_log,         \* the "Fixed <id>: <old> -> <new>" lines printed by fix_dataset
    fstate,          \* "idle", "running", "returned", "replaced" or "error"
    fixed_counts,    \* return values of the completed fix_dataset runs
    gen_seen         \* <<rng, label>> of every call of determine_label

engineVars == <<data, rng, expected_label, correct_label, comment,
                labels_seen, comments_seen>>
validateVars == <<corpus, line_num, results, vstate, accuracy>>
fixVars == <<f_pos, output, fixed_count, fix_total, fix_log, fstate, fixed_counts>>
vars == <<data, rng, expected_label, correct_label, comment, labels_seen,
          comments_seen, corpus, line_num, results, vstate, accuracy,
          f_pos, output, fixed_count, fix_total, fix_log, fstate, fixed_counts,
          gen_seen>>

-----------------------------------------------------------------------------
\* Bounds

MaxLines == 3

-----------------------------------------------------------------------------
\* Python string primitives

\* needle in hay (str.__contains__)
Contains(needle, hay) ==
    \E i \in 1..(Len(hay) - Len(needle) + 1) :
        SubSeq(hay, i, i + Len(needle) - 1) = needle

UpperChars == "ABCDEFGHIJKLMNOPQRSTUVWXYZ"
LowerChars == "abcdefghijklmnopqrstuvwxyz"

LowerChar(c) ==
    IF \E k \in 1..26 : SubSeq(UpperChars, k, k) = c
    THEN LET k == CHOOSE j \in 1..26 : SubSeq(UpperChars, j, j) = c
         IN  SubSeq(LowerChars, k, k)
    ELSE c

\* the comparison forgets to fold case
lower_Identity(s) == s

\* str.lower
RECURSIVE lower(_)
lower(s) ==
    IF Len(s) = 0 THEN ""
    ELSE LowerChar(SubSeq(s, 1, 1)) \o lower(SubSeq(s, 2, Len(s)))

Whitespace == {" ", "\t", "\n", "\r"}

\* str.strip
RECURSIVE strip(_)
strip(s) ==
    IF Len(s) = 0 THEN ""
    ELSE IF SubSeq(s, 1, 1) \in Whitespace THEN strip(SubSeq(s, 2, Len(s)))
    ELSE IF SubSeq(s, Len(s), Len(s)) \in Whitespace
         THEN strip(SubSeq(s, 1, Len(s) - 1))
    ELSE s

\* " ".join(reasons)
RECURSIVE join(_)
join(reasons) ==
    IF Len(reasons) = 0 THEN ""
    ELSE IF Len(reasons) = 1 THEN reasons[1]
    ELSE reasons[1] \o " " \o join(Tail(reasons))

-----------------------------------------------------------------------------
\* Fact catalogs of the generator

REPO_TYPES ==
    {"Prod Microservice", "Monolith Core",
     "Infrastructure-as-Code (Terraform/Ansible)", "Test/QA Suite",
     "Deprecated/Archived", "Internal Tooling", "Data Science Notebooks"}

EXPOSURE_TYPES ==
    {"Public (Open Source)", "Private (Internal)", "Internal (Partner Shared)"}

COMMIT_AGES ==
    {"Fresh (< 1 hour)", "Recent (1-7 days)", "Stale (> 6 months)",
     "Legacy (3+ years)"}

DETECTION_SOURCES ==
    {"TruffleHog", "Gitleaks", "SonarQube", "GitHub Advanced Security",
     "Manual Bug Bounty"}

USAGE_EVIDENCES ==
    {"Active usage in CloudTrail/Logs (Last 1h)", "Intermittent usage (Last 7d)",
     "No usage found (90d+)", "Unable to verify"}

REPO_CRITICALITIES ==
    {"Critical (P0 - Customer Data)", "High (P1 - Business Logic)",
     "Medium (P2 - Internal)", "Low (P3 - Sandbox)"}

ROTATION_STATUSES == {"Active/Valid", "Already Rotated", "Revoked", "Invalid"}

SIMILAR_PAST_INCIDENTS ==
    {"None", "Frequent False Positives in this file",
     "Recurring issue in this repo"}

IMPACT_RADII == {"Single Service", "Multiple Services", "Cross-Team", "Org Wide"}

\* The five labels the engine can return
Labels == {"Mitigated", "False Positive", "Suppressed", "Confirmed", "Open"}

\* Results that are not a return value
NoResult == "<not called>"
KeyError == "<KeyError>"

-----------------------------------------------------------------------------
\* The fact bundle: the "data" object of a ticket record

MkData(category, repo_type, exposure, criticality, source, commit_age, usage_evidence, rotation_status, impact_radius, past_incidents) ==
    [category           |-> category,
     raw_secret_snippet |-> "AKIA...7X2A",
     repo_details       |-> [type        |-> repo_type,
                             exposure    |-> exposure,
                             criticality |-> criticality],
     detection          |-> [source      |-> source,
                             commit_age  |-> commit_age],
     investigation      |-> [usage_evidence         |-> usage_evidence,
                             rotation_status        |-> rotation_status,
                             impact_radius          |-> impact_radius,
                             similar_past_incidents |-> past_incidents]]

\* d[outer][inner] does not raise KeyError
HasKey(d, outer, inner) == outer \in DOMAIN d /\ inner \in DOMAIN d[outer]

\* the six lookups at the head of apply_decision_logic all succeed
EngineKeysPresent(d) ==
    /\ HasKey(d, "investigation", "rotation_status")
    /\ HasKey(d, "repo_details", "type")
    /\ HasKey(d, "investigation", "usage_evidence")
    /\ HasKey(d, "repo_details", "criticality")
    /\ HasKey(d, "repo_details", "exposure")
    /\ HasKey(d, "investigation", "similar_past_incidents")

-----------------------------------------------------------------------------
\* The decision engine, validate_tickets.py copy

\* Variants of the engine with one rule changed, used to test the properties

RuleFacts(d) ==
    [rot      |-> d.investigation.rotation_status,
     archived |-> Contains("Deprecated", d.repo_details.type)
                      \/ Contains("Archived", d.repo_details.type),
     test_fp  |-> d.repo_details.type = "Test/QA Suite"
                      /\ d.investigation.similar_past_incidents
                             = "Frequent False Positives in this file",
     active   |-> Contains("Active usage", d.investigation.usage_evidence),
     high     |-> Contains("P0", d.repo_details.criticality)
                      \/ Contains("P1", d.repo_details.criticality),
     public   |-> Contains("Public", d.repo_details.exposure)]

\* rule 1 forgets "Already Rotated"
apply_decision_logic_RevokedOnly(d) ==
    LET f == RuleFacts(d)
    IN  IF f.rot = "Revoked" THEN "Mitigated"
        ELSE IF f.rot = "Invalid" THEN "False Positive"
        ELSE IF f.archived THEN "Suppressed"
        ELSE IF f.test_fp /\ ~f.active THEN "False Positive"
        ELSE IF f.rot = "Active/Valid" /\ f.active THEN "Confirmed"
        ELSE IF f.rot = "Active/Valid" /\ f.high /\ f.public THEN "Confirmed"
        ELSE "Open"

\* rule 5 is tried before rule 3
apply_decision_logic_UsageBeforeArchive(d) ==
    LET f == RuleFacts(d)
    IN  IF f.rot \in {"Revoked", "Already Rotated"} THEN "Mitigated"
        ELSE IF f.rot = "Invalid" THEN "False Positive"
        ELSE IF f.rot = "Active/Valid" /\ f.active THEN "Confirmed"
        ELSE IF f.archived THEN "Suppressed"
        ELSE IF f.test_fp /\ ~f.active THEN "False Positive"
        ELSE IF f.rot = "Active/Valid" /\ f.high /\ f.public THEN "Confirmed"
        ELSE "Open"

\* rule 4 without its "no active usage" guard
apply_decision_logic_NoUsageGuard(d) ==
    LET f == RuleFacts(d)
    IN  IF f.rot \in {"Revoked", "Already Rotated"} THEN "Mitigated"
        ELSE IF f.rot = "Invalid" THEN "False Positive"
        ELSE IF f.archived THEN "Suppressed"
        ELSE IF f.test_fp THEN "False Positive"
        ELSE IF f.rot = "Active/Valid" /\ f.active THEN "Confirmed"
        ELSE IF f.rot = "Active/Valid" /\ f.high /\ f.public THEN "Confirmed"
        ELSE "Open"

\* rule 3 is tried before rule 2
apply_decision_logic_ArchiveBeforeInvalid(d) ==
    LET f == RuleFacts(d)
    IN  IF f.rot \in {"Revoked", "Already Rotated"} THEN "Mitigated"
        ELSE IF f.archived THEN "Suppressed"
        ELSE IF f.rot = "Invalid" THEN "False Positive"
        ELSE IF f.test_fp /\ ~f.active THEN "False Positive"
        ELSE IF f.rot = "Active/Valid" /\ f.active THEN "Confirmed"
        ELSE IF f.rot = "Active/Valid" /\ f.high /\ f.public THEN "Confirmed"
        ELSE "Open"

\* rule 5 also asks for public exposure, as the generator's rule 5 does
apply_decision_logic_ConfirmNeedsPublic(d) ==
    LET f == RuleFacts(d)
    IN  IF f.rot \in {"Revoked", "Already Rotated"} THEN "Mitigated"
        ELSE IF f.rot = "Invalid" THEN "False Positive"
        ELSE IF f.archived THEN "Suppressed"
        ELSE IF f.test_fp /\ ~f.active THEN "False Positive"
        ELSE IF f.rot = "Active/Valid" /\ f.active /\ f.public THEN "Confirmed"
        ELSE IF f.rot = "Active/Valid" /\ f.high /\ f.public THEN "Confirmed"
        ELSE "Open"

\* rule 6 is tried before rule 4
apply_decision_logic_ExposureBeforeTestSuite(d) ==
    LET f == RuleFacts(d)
    IN  IF f.rot \in {"Revoked", "Already Rotated"} THEN "Mitigated"
        ELSE IF f.rot = "Invalid" THEN "False Positive"
        ELSE IF f.archived THEN "Suppressed"
        ELSE IF f.rot = "Active/Valid" /\ f.high /\ f.public THEN "Confirmed"
        ELSE IF f.test_fp /\ ~f.active THEN "False Positive"
        ELSE IF f.rot = "Active/Valid" /\ f.active THEN "Confirmed"
        ELSE "Open"

\* an unrecognized rotation status is rejected with ValueError
apply_decision_logic_RejectUnknown(d) ==
    LET f == RuleFacts(d)
    IN  IF f.rot \notin ROTATION_STATUSES THEN "<ValueError>"
        ELSE IF f.rot \in {"Revoked", "Already Rotated"} THEN "Mitigated"
        ELSE IF f.rot = "Invalid" THEN "False Positive"
        ELSE IF f.archived THEN "Suppressed"
        ELSE IF f.test_fp /\ ~f.active THEN "False Positive"
        ELSE IF f.rot = "Active/Valid" /\ f.active THEN "Confirmed"
        ELSE IF f.rot = "Active/Valid" /\ f.high /\ f.public THEN "Confirmed"
        ELSE "Open"

\* rule 7 uses is_prod_or_monolith: a live credential in a production or
\* monolith repo is escalated to Confirmed
apply_decision_logic_ProdEscalates(d) ==
    LET f == RuleFacts(d)
    IN  IF f.rot \in {"Revoked", "Already Rotated"} THEN "Mitigated"
        ELSE IF f.rot = "Invalid" THEN "False Positive"
        ELSE IF f.archived THEN "Suppressed"
        ELSE IF f.test_fp /\ ~f.active THEN "False Positive"
        ELSE IF f.rot = "Active/Valid" /\ f.active THEN "Confirmed"
        ELSE IF f.rot = "Active/Valid" /\ f.high /\ f.public THEN "Confirmed"
        ELSE IF /\ f.rot = "Active/Valid"
                /\ (Contains("Prod", d.repo_details.type) \/ Contains("Monolith", d.repo_details.type))
             THEN "Confirmed"
        ELSE "Open"

apply_decision_logic(d) ==
    IF ~EngineKeysPresent(d) THEN KeyError
    ELSE
    LET rotation_status == d.investigation.rotation_status
        repo_type       == d.repo_details.type
        usage_evidence  == d.investigation.usage_evidence
        criticality     == d.repo_details.criticality
        exposure        == d.repo_details.exposure
        past_incidents  == d.investigation.similar_past_incidents
        is_active_usage     == Contains("Active usage", usage_evidence)
        is_high_criticality == Contains("P0", criticality) \/ Contains("P1", criticality)
        is_public           == Contains("Public", exposure)
        is_prod_or_monolith == Contains("Prod", repo_type) \/ Contains("Monolith", repo_type)
        is_test_qa          == repo_type = "Test/QA Suite"
    IN  \* Priority 1
        IF rotation_status \in {"Revoked", "Already Rotated"} THEN "Mitigated"
        \* Priority 2
        ELSE IF rotation_status = "Invalid" THEN "False Positive"
        \* Priority 3
        ELSE IF Contains("Deprecated", repo_type) \/ Contains("Archived", repo_type)
             THEN "Suppressed"
        \* Priority 4
        ELSE IF /\ is_test_qa
                /\ past_incidents = "Frequent False Positives in this file"
                /\ ~is_active_usage
             THEN "False Positive"
        \* Priority 5
        ELSE IF rotation_status = "Active/Valid" /\ is_active_usage THEN "Confirmed"
        \* Priority 6
        ELSE IF rotation_status = "Active/Valid" /\ is_high_criticality /\ is_public
             THEN "Confirmed"
        \* Priority 7
        ELSE IF rotation_status = "Active/Valid" THEN "Open"
        \* Default fallback
        ELSE "Open"

\* The decision engine, fix_tickets.py copy

\* the final "return Open" is missing: the function falls off its end
fix_apply_decision_logic_NoFallback(d) ==
    LET f == RuleFacts(d)
    IN  IF f.rot \in {"Revoked", "Already Rotated"} THEN "Mitigated"
        ELSE IF f.rot = "Invalid" THEN "False Positive"
        ELSE IF f.archived THEN "Suppressed"
        ELSE IF f.test_fp /\ ~f.active THEN "False Positive"
        ELSE IF f.rot = "Active/Valid" /\ f.active THEN "Confirmed"
        ELSE IF f.rot = "Active/Valid" /\ f.high /\ f.public THEN "Confirmed"
        ELSE IF f.rot = "Active/Valid" THEN "Open"
        ELSE "<None>"

\* rule 7 breaks the tie at random for used credentials, as the generator's
\* rule 11 does
fix_apply_decision_logic_RandomTieBreak(d) ==
    LET f == RuleFacts(d)
    IN  IF f.rot \in {"Revoked", "Already Rotated"} THEN "Mitigated"
        ELSE IF f.rot = "Invalid" THEN "False Positive"
        ELSE IF f.archived THEN "Suppressed"
        ELSE IF f.test_fp /\ ~f.active THEN "False Positive"
        ELSE IF f.rot = "Active/Valid" /\ f.active THEN "Confirmed"
        ELSE IF f.rot = "Active/Valid" /\ f.high /\ f.public THEN "Confirmed"
        ELSE IF f.rot = "Active/Valid"
             THEN (IF rng = 0 THEN "Open" ELSE "Confirmed")
        ELSE "Open"

fix_apply_decision_logic(d) ==
    IF ~EngineKeysPresent(d) THEN KeyError
    ELSE
    LET rotation_status == d.investigation.rotation_status
        repo_type       == d.repo_details.type
        usage_evidence  == d.investigation.usage_evidence
        criticality     == d.repo_details.criticality
        exposure        == d.repo_details.exposure
        past_incidents  == d.investigation.similar_past_incidents
        is_active_usage     == Contains("Active usage", usage_evidence)
        is_high_criticality == Contains("P0", criticality) \/ Contains("P1", criticality)
        is_public           == Contains("Public", exposure)
        is_test_qa          == repo_type = "Test/QA Suite"
    IN  IF rotation_status \in {"Revoked", "Already Rotated"} THEN "Mitigated"
        ELSE IF rotation_status = "Invalid" THEN "False Positive"
        ELSE IF Contains("Deprecated", repo_type) \/ Contains("Archived", repo_type)
             THEN "Suppressed"
        ELSE IF /\ is_test_qa
                /\ past_incidents = "Frequent False Positives in this file"
                /\ ~is_active_usage
             THEN "False Positive"
        ELSE IF rotation_status = "Active/Valid" /\ is_active_usage THEN "Confirmed"
        ELSE IF rotation_status = "Active/Valid" /\ is_high_criticality /\ is_public
             THEN "Confirmed"
        ELSE IF rotation_status = "Active/Valid" THEN "Open"
        ELSE "Open"

-----------------------------------------------------------------------------
\* The comment synthesizer of fix_tickets.py

\* the nine lookups at the head of generate_comment all succeed
CommentKeysPresent(d) ==
    /\ "category" \in DOMAIN d
    /\ HasKey(d, "repo_details", "type")
    /\ HasKey(d, "investigation", "usage_evidence")
    /\ HasKey(d, "investigation", "rotation_status")
    /\ HasKey(d, "repo_details", "criticality")
    /\ HasKey(d, "detection", "source")
    /\ HasKey(d, "repo_details", "exposure")
    /\ HasKey(d, "investigation", "impact_radius")
    /\ HasKey(d, "investigation", "similar_past_incidents")

\* the clause is appended whether or not its trigger holds
AppendIf_Always(reasons, cond, x) == Append(reasons, x)

\* reasons.append(x) if cond
AppendIf(reasons, cond, x) == IF cond THEN Append(reasons, x) ELSE reasons

generate_comment(d, label) ==
    IF ~CommentKeysPresent(d) THEN KeyError
    ELSE
    LET category       == d.category
        repo_type      == d.repo_details.type
        usage          == d.investigation.usage_evidence
        status         == d.investigation.rotation_status
        criticality    == d.repo_details.criticality
        detection      == d.detection.source
        exposure       == d.repo_details.exposure
        impact         == d.investigation.impact_radius
        past_incidents == d.investigation.similar_past_incidents
        headline == "Automated analysis: " \o category \o " detected in "
                    \o repo_type \o "."
        context  == "\nContext:\n- Usage: " \o usage \o "\n- Status: " \o status
                    \o "\n- Criticality: " \o criticality
                    \o "\n- Detection Source: " \o detection
        recommendation == "\nRecommendation: Mark as " \o label \o "."
        fpReasons ==
            Append(
              AppendIf(
                AppendIf(
                  AppendIf(<<>>, status = "Invalid",
                    "Credential validation failed - not a valid secret format."),
                  past_incidents = "Frequent False Positives in this file",
                  "File has history of false positive detections."),
                Contains("Test", repo_type) \/ Contains("QA", repo_type),
                "Test fixture or example data - not a real credential."),
              "No remediation required. Consider adding to allowlist.")
        supReasons ==
            Append(
              AppendIf(
                <<"Repository is archived/deprecated with no active deployments.">>,
                Contains("No usage found", usage),
                "No usage detected in 90+ days."),
              "Risk accepted per security policy. Document and close.")
        conReasons ==
            Append(
              AppendIf(
                AppendIf(
                  AppendIf(<<"High-confidence active threat detected.">>,
                    Contains("Active usage", usage),
                    "Recent usage logs confirm the credential is actively being used."),
                  Contains("Public", exposure),
                  "Public exposure increases risk of credential harvesting."),
                Contains("P0", criticality),
                "Repository handles customer data - immediate rotation required."),
              "Impact radius: " \o impact \o ". Initiate incident response protocol.")
        openReasons ==
            Append(
              AppendIf(
                <<"Valid credential requiring remediation.",
                  "Credential is still active and has not been rotated.">>,
                Contains("Prod", repo_type) \/ Contains("Monolith", repo_type),
                "Found in " \o repo_type \o " - prioritize based on "
                    \o criticality \o "."),
              "Assign to repository owner for rotation.")
        reasoning ==
            IF label = "Mitigated" THEN
                IF status = "Revoked"
                THEN "\nReasoning: Credential has been revoked and is no longer valid. No further action required. Verify rotation in key management system."
                ELSE "\nReasoning: Credential has already been rotated; new key is in place. No further action required. Verify rotation in key management system."
            ELSE IF label = "False Positive" THEN "\nReasoning: " \o join(fpReasons)
            ELSE IF label = "Suppressed" THEN "\nReasoning: " \o join(supReasons)
            ELSE IF label = "Confirmed" THEN "\nReasoning: " \o join(conReasons)
            ELSE "\nReasoning: " \o join(openReasons)
    IN  headline \o context \o recommendation \o reasoning

-----------------------------------------------------------------------------
\* Fact bundles explored: the generator's catalogs plus values outside them

RotationValues == ROTATION_STATUSES \cup {"Expired"}
RepoTypeValues ==
    REPO_TYPES \cup {"Archived (Read-only)", "Deprecated Service", "Test/QA Suite (Nightly)"}
UsageValues == USAGE_EVIDENCES \cup {"Active usage in VPC flow logs (Last 24h)"}
CategoryValues == {"AWS Secret Access Key", "Hardcoded Password"}
SourceValues == {"TruffleHog"}
ImpactValues == {"Single Service", "Org Wide"}

Bundles ==
    { MkData(cat, rt, ex, cr, src, "Fresh (< 1 hour)", us, rot, imp, past) :
        cat \in CategoryValues, rt \in RepoTypeValues, ex \in EXPOSURE_TYPES,
        cr \in REPO_CRITICALITIES, src \in SourceValues, us \in UsageValues,
        rot \in RotationValues, imp \in ImpactValues,
        past \in SIMILAR_PAST_INCIDENTS }

EmptyResults == [total |-> 0, matches |-> 0, mismatches |-> <<>>, by_label |-> <<>>]

-----------------------------------------------------------------------------
\* Engine specification: one fact bundle is evaluated by both engine copies
\* and explained by the synthesizer

Init ==
    /\ data \in Bundles
    /\ rng = 0
    /\ expected_label = NoResult
    /\ correct_label = NoResult
    /\ comment = NoResult
    /\ labels_seen = {}
    /\ comments_seen = {}
    /\ corpus = <<>>
    /\ line_num = 0
    /\ results = EmptyResults
    /\ vstate = "idle"
    /\ accuracy = 0
    /\ f_pos = 0
    /\ output = <<>>
    /\ fixed_count = 0
    /\ fix_total = 0
    /\ fix_log = <<>>
    /\ fstate = "idle"
    /\ fixed_counts = <<>>
    /\ gen_seen = {}

\* expected_label = apply_decision_logic(ticket["data"])   (validate_tickets.py)
Evaluate ==
    /\ expected_label' = apply_decision_logic(data)
    /\ UNCHANGED <<data, rng, correct_label, comment, labels_seen, comments_seen>>
    /\ UNCHANGED validateVars
    /\ UNCHANGED <<fixVars, gen_seen>>

\* correct_label = apply_decision_logic(ticket["data"])    (fix_tickets.py)
FixEvaluate ==
    /\ correct_label' = fix_apply_decision_logic(data)
    /\ labels_seen' = labels_seen \cup {<<rng, fix_apply_decision_logic(data)>>}
    /\ UNCHANGED <<data, rng, expected_label, comment, comments_seen>>
    /\ UNCHANGED validateVars
    /\ UNCHANGED <<fixVars, gen_seen>>

\* ticket["ideal_llm_comment"] = generate_comment(ticket["data"], correct_label)
Explain ==
    /\ correct_label \in Labels
    /\ comment' = generate_comment(data, correct_label)
    /\ comments_seen' = comments_seen \cup
           {<<rng, correct_label, generate_comment(data, correct_label)>>}
    /\ UNCHANGED <<data, rng, expected_label, correct_label, labels_seen>>
    /\ UNCHANGED validateVars
    /\ UNCHANGED <<fixVars, gen_seen>>

Next == Evaluate \/ FixEvaluate \/ Explain

Spec == Init /\ [][Next]_vars

\* Purity specification: the fix-tool functions are called again and again
\* while the process-global random generator is reseeded or drawn from

\* random.seed / random.choice / random.randint move the global generator state
RandomDraw ==
    /\ rng' = 1 - rng
    /\ UNCHANGED <<data, expected_label, correct_label, comment, labels_seen, comments_seen>>
    /\ UNCHANGED validateVars
    /\ UNCHANGED <<fixVars, gen_seen>>

NextPure == FixEvaluate \/ Explain \/ RandomDraw

SpecPure == Init /\ [][NextPure]_vars

-----------------------------------------------------------------------------
\* The corpus read by validate_dataset: lines of a JSONL file.  A line is its
\* text; a line holding a JSON document also carries the parsed document.

CorpusConfirmed ==
    MkData("AWS Secret Access Key", "Prod Microservice", "Public (Open Source)", "Critical (P0 - Customer Data)", "TruffleHog", "Fresh (< 1 hour)", "Active usage in CloudTrail/Logs (Last 1h)", "Active/Valid", "Org Wide", "None")

CorpusOpen ==
    MkData("Hardcoded Password", "Internal Tooling", "Private (Internal)", "Medium (P2 - Internal)", "TruffleHog", "Fresh (< 1 hour)", "Unable to verify", "Active/Valid", "Single Service", "None")

\* a fact bundle without investigation.rotation_status
CorpusNoRotation ==
    [CorpusOpen EXCEPT !.investigation =
        [usage_evidence         |-> "Unable to verify",
         impact_radius          |-> "Single Service",
         similar_past_incidents |-> "None"]]

RecordedLabels == {"Confirmed", "Open", "confirmed"}

MkTicket(id, d, label) ==
    [ticket_id |-> id, data |-> d, label |-> label, ideal_llm_comment |-> "n/a"]

JsonLine(ticket) == [text |-> "{...}\n", json |-> ticket]

BlankLines == {[text |-> "\n"], [text |-> "  \t\n"]}

\* well-formed records, and records that lack label, a fact or ticket_id
LineShapes ==
    { JsonLine(MkTicket("", d, l)) : d \in {CorpusConfirmed, CorpusOpen}, l \in RecordedLabels }
    \cup { JsonLine([ticket_id |-> "", data |-> CorpusOpen, ideal_llm_comment |-> "n/a"]),
           JsonLine(MkTicket("", CorpusNoRotation, "Open")),
           JsonLine([data |-> CorpusConfirmed, label |-> "Confirmed", ideal_llm_comment |-> "n/a"]) }
    \cup BlankLines

\* f"SEC-{random.randint(10000, 99999)}"; here one identifier per line position
TicketId(i) == "SEC-1000" \o SubSeq("123456789", i, i)

Stamp(line, i) ==
    IF "json" \in DOMAIN line /\ "ticket_id" \in DOMAIN line.json
    THEN [line EXCEPT !.json.ticket_id = TicketId(i)]
    ELSE line

Corpora ==
    UNION { { [i \in 1..n |-> Stamp(c[i], i)] : c \in [1..n -> LineShapes] } : n \in 0..MaxLines }

\* json.loads(line)
json_loads(line) == line.json

\* the counter is assigned 1 instead of being incremented
Bump_Assign(by_label, label, field) ==
    [l \in (DOMAIN by_label) \cup {label} |->
        IF l = label
        THEN [(IF label \in DOMAIN by_label THEN by_label[label] ELSE [correct |-> 0, incorrect |-> 0])
                 EXCEPT ![field] = 1]
        ELSE by_label[l]]

\* results["by_label"][label][field] += 1 on a defaultdict
Bump(by_label, label, field) ==
    [l \in (DOMAIN by_label) \cup {label} |->
        IF l = label
        THEN [(IF label \in DOMAIN by_label THEN by_label[label] ELSE [correct |-> 0, incorrect |-> 0])
                 EXCEPT ![field] = @ + 1]
        ELSE by_label[l]]

\* the swapped variant records the recorded label as expected and vice versa
MismatchEntry_Swapped(n, ticket, expected, actual) ==
    [line            |-> n,
     ticket_id       |-> ticket.ticket_id,
     expected        |-> actual,
     actual          |-> expected,
     rotation_status |-> ticket.data.investigation.rotation_status,
     repo_type       |-> ticket.data.repo_details.type,
     usage           |-> ticket.data.investigation.usage_evidence,
     criticality     |-> ticket.data.repo_details.criticality,
     past_incidents  |-> ticket.data.investigation.similar_past_incidents]

\* the usage field is filled from the criticality by a copy-and-paste slip
MismatchEntry_UsageSlip(n, ticket, expected, actual) ==
    [line            |-> n,
     ticket_id       |-> ticket.ticket_id,
     expected        |-> expected,
     actual          |-> actual,
     rotation_status |-> ticket.data.investigation.rotation_status,
     repo_type       |-> ticket.data.repo_details.type,
     usage           |-> ticket.data.repo_details.criticality,
     criticality     |-> ticket.data.repo_details.criticality,
     past_incidents  |-> ticket.data.investigation.similar_past_incidents]

\* the dict appended to results["mismatches"]
MismatchEntry(n, ticket, expected, actual) ==
    [line            |-> n,
     ticket_id       |-> ticket.ticket_id,
     expected        |-> expected,
     actual          |-> actual,
     rotation_status |-> ticket.data.investigation.rotation_status,
     repo_type       |-> ticket.data.repo_details.type,
     usage           |-> ticket.data.investigation.usage_evidence,
     criticality     |-> ticket.data.repo_details.criticality,
     past_incidents  |-> ticket.data.investigation.similar_past_incidents]

\* (results["matches"] / results["total"]) * 100 if results["total"] > 0 else 0,
\* as printed with two decimals, in hundredths of a percent
Accuracy(r) ==
    IF r.total > 0 THEN (2 * 10000 * r.matches + r.total) \div (2 * r.total) ELSE 0

NoData == [category |-> "<no ticket>"]

-----------------------------------------------------------------------------
\* Validator specification: validate_dataset scans one corpus, then
\* print_report computes the accuracy

InitValidate ==
    /\ corpus \in Corpora
    /\ line_num = 0
    /\ results = EmptyResults
    /\ vstate = "running"
    /\ accuracy = 0
    /\ data = NoData
    /\ rng = 0
    /\ expected_label = NoResult
    /\ correct_label = NoResult
    /\ comment = NoResult
    /\ labels_seen = {}
    /\ comments_seen = {}
    /\ f_pos = 0
    /\ output = <<>>
    /\ fixed_count = 0
    /\ fix_total = 0
    /\ fix_log = <<>>
    /\ fstate = "idle"
    /\ fixed_counts = <<>>
    /\ gen_seen = {}

\* one iteration of the for loop of validate_dataset
ValidateLine ==
    /\ vstate = "running"
    /\ line_num < Len(corpus)
    /\ line_num' = line_num + 1
    /\ LET line == corpus[line_num + 1] IN
       IF strip(line.text) = ""
       THEN \* continue
            UNCHANGED <<results, vstate, data, expected_label>>
       ELSE
       LET ticket  == json_loads(line)
           counted == [results EXCEPT !.total = @ + 1]
       IN  IF "data" \notin DOMAIN ticket
           THEN /\ results' = counted
                /\ vstate' = "error"
                /\ UNCHANGED <<data, expected_label>>
           ELSE
           LET expected == apply_decision_logic(ticket.data) IN
           IF expected = KeyError \/ "label" \notin DOMAIN ticket
           THEN /\ results' = counted
                /\ vstate' = "error"
                /\ data' = ticket.data
                /\ expected_label' = expected
           ELSE
           LET actual == ticket.label IN
           /\ data' = ticket.data
           /\ expected_label' = expected
           /\ IF lower(expected) = lower(actual)
              THEN /\ results' = [counted EXCEPT
                          !.matches = @ + 1,
                          !.by_label = Bump(@, actual, "correct")]
                   /\ UNCHANGED vstate
              ELSE IF "ticket_id" \notin DOMAIN ticket
              THEN /\ results' = counted
                   /\ vstate' = "error"
              ELSE /\ results' = [counted EXCEPT
                          !.mismatches = Append(@, MismatchEntry(line_num + 1, ticket, expected, actual)),
                          !.by_label = Bump(@, actual, "incorrect")]
                   /\ UNCHANGED vstate
    /\ UNCHANGED <<corpus, accuracy, rng, correct_label, comment, labels_seen, comments_seen>>
    /\ UNCHANGED <<fixVars, gen_seen>>

\* the file is exhausted: return results
ValidateReturn ==
    /\ vstate = "running"
    /\ line_num = Len(corpus)
    /\ vstate' = "returned"
    /\ UNCHANGED <<corpus, line_num, results, accuracy>>
    /\ UNCHANGED engineVars
    /\ UNCHANGED <<fixVars, gen_seen>>

\* print_report(results)
PrintReport ==
    /\ vstate = "returned"
    /\ accuracy' = Accuracy(results)
    /\ vstate' = "reported"
    /\ UNCHANGED <<corpus, line_num, results>>
    /\ UNCHANGED engineVars
    /\ UNCHANGED <<fixVars, gen_seen>>

NextValidate == ValidateLine \/ ValidateReturn \/ PrintReport

SpecValidate == InitValidate /\ [][NextValidate]_vars

-----------------------------------------------------------------------------
\* The fix tool: fix_dataset rewrites a corpus; its output can replace the
\* original and be validated or fixed again

MaxRuns == 2

\* d[key] = value on a dict
SetKey(d, key, value) ==
    [k \in (DOMAIN d) \cup {key} |-> IF k = key THEN value ELSE d[k]]

\* only the comment is regenerated, the label is left as recorded
FixedTicket_KeepsLabel(ticket, label) ==
    SetKey(ticket, "ideal_llm_comment", generate_comment(ticket.data, label))

\* ticket["label"] = correct_label
\* ticket["ideal_llm_comment"] = generate_comment(ticket["data"], correct_label)
FixedTicket(ticket, label) ==
    SetKey(SetKey(ticket, "label", label),
           "ideal_llm_comment", generate_comment(ticket.data, label))

\* a comment that is not the synthesizer's text for the record
StaleComment == "Reviewed manually."

\* a record whose comment is stale, or is the synthesizer's text for its facts
CommentFor(d, stale) ==
    IF stale THEN StaleComment ELSE generate_comment(d, fix_apply_decision_logic(d))

FixLineShapes ==
    { JsonLine([MkTicket("", d, l) EXCEPT !.ideal_llm_comment = CommentFor(d, stale)]) :
        d \in {CorpusConfirmed, CorpusOpen}, l \in {"Confirmed", "Open"}, stale \in BOOLEAN }
    \cup { JsonLine([ticket_id |-> "", data |-> CorpusOpen, ideal_llm_comment |-> StaleComment]),
           JsonLine([data |-> CorpusConfirmed, label |-> "Confirmed", ideal_llm_comment |-> StaleComment]) }
    \cup {[text |-> "\n"]}

FixCorpora ==
    UNION { { [i \in 1..n |-> Stamp(c[i], i)] : c \in [1..n -> FixLineShapes] } : n \in 0..MaxLines }

InitFix ==
    /\ corpus \in FixCorpora
    /\ f_pos = 0
    /\ output = <<>>
    /\ fixed_count = 0
    /\ fix_total = 0
    /\ fix_log = <<>>
    /\ fstate = "running"
    /\ fixed_counts = <<>>
    /\ line_num = 0
    /\ results = EmptyResults
    /\ vstate = "idle"
    /\ accuracy = 0
    /\ data = NoData
    /\ rng = 0
    /\ expected_label = NoResult
    /\ correct_label = NoResult
    /\ comment = NoResult
    /\ labels_seen = {}
    /\ comments_seen = {}
    /\ gen_seen = {}

\* one iteration of the for loop of fix_dataset
FixLine ==
    /\ fstate = "running"
    /\ f_pos < Len(corpus)
    /\ f_pos' = f_pos + 1
    /\ LET line == corpus[f_pos + 1] IN
       IF strip(line.text) = ""
       THEN \* continue
            UNCHANGED <<output, fixed_count, fix_total, fix_log, fstate,
                        data, correct_label, comment>>
       ELSE
       LET ticket == json_loads(line) IN
       /\ fix_total' = fix_total + 1
       /\ IF "data" \notin DOMAIN ticket
          THEN /\ fstate' = "error"
               /\ UNCHANGED <<output, fixed_count, fix_log, data, correct_label, comment>>
          ELSE
          LET label == fix_apply_decision_logic(ticket.data) IN
          /\ data' = ticket.data
          /\ correct_label' = label
          /\ IF label = KeyError \/ "label" \notin DOMAIN ticket
             THEN /\ fstate' = "error"
                  /\ UNCHANGED <<output, fixed_count, fix_log, comment>>
             ELSE IF ticket.label # label /\ "ticket_id" \notin DOMAIN ticket
             THEN \* the print of the fix raises after fixed_count += 1
                  /\ fixed_count' = fixed_count + 1
                  /\ fstate' = "error"
                  /\ UNCHANGED <<output, fix_log, comment>>
             ELSE
             /\ IF ticket.label # label
                THEN /\ fixed_count' = fixed_count + 1
                     /\ fix_log' = Append(fix_log,
                            [ticket_id |-> ticket.ticket_id, old |-> ticket.label, new |-> label])
                ELSE UNCHANGED <<fixed_count, fix_log>>
             /\ IF generate_comment(ticket.data, label) = KeyError
                THEN /\ fstate' = "error"
                     /\ UNCHANGED <<output, comment>>
                ELSE /\ comment' = generate_comment(ticket.data, label)
                     /\ output' = Append(output, JsonLine(FixedTicket(ticket, label)))
                     /\ UNCHANGED fstate
    /\ UNCHANGED <<corpus, fixed_counts, rng, expected_label, labels_seen, comments_seen>>
    /\ UNCHANGED <<line_num, results, vstate, accuracy, gen_seen>>

\* the input is exhausted: print the totals and return fixed_count
FixReturn ==
    /\ fstate = "running"
    /\ f_pos = Len(corpus)
    /\ fstate' = "returned"
    /\ fixed_counts' = Append(fixed_counts, fixed_count)
    /\ UNCHANGED <<f_pos, output, fixed_count, fix_total, fix_log>>
    /\ UNCHANGED engineVars
    /\ UNCHANGED validateVars
    /\ UNCHANGED gen_seen

\* mv security_tickets_fixed.jsonl security_tickets.jsonl
ReplaceOriginal ==
    /\ fstate = "returned"
    /\ corpus' = output
    /\ fstate' = "replaced"
    /\ UNCHANGED <<f_pos, output, fixed_count, fix_total, fix_log, fixed_counts>>
    /\ UNCHANGED engineVars
    /\ UNCHANGED <<line_num, results, vstate, accuracy, gen_seen>>

\* fix_dataset is run again, on the replaced file
FixAgain ==
    /\ fstate = "replaced"
    /\ vstate \in {"idle", "reported"}
    /\ Len(fixed_counts) < MaxRuns
    /\ fstate' = "running"
    /\ f_pos' = 0
    /\ output' = <<>>
    /\ fixed_count' = 0
    /\ fix_total' = 0
    /\ fix_log' = <<>>
    /\ UNCHANGED fixed_counts
    /\ UNCHANGED engineVars
    /\ UNCHANGED validateVars
    /\ UNCHANGED gen_seen

\* validate_dataset is run on the replaced file
ValidateFixed ==
    /\ fstate = "replaced"
    /\ vstate = "idle"
    /\ vstate' = "running"
    /\ line_num' = 0
    /\ results' = EmptyResults
    /\ UNCHANGED <<corpus, accuracy>>
    /\ UNCHANGED engineVars
    /\ UNCHANGED <<fixVars, gen_seen>>

NextFix ==
    \/ FixLine \/ FixReturn \/ ReplaceOriginal \/ FixAgain
    \/ ValidateFixed \/ ValidateLine \/ ValidateReturn \/ PrintReport

SpecFix == InitFix /\ [][NextFix]_vars

-----------------------------------------------------------------------------
\* The generator: determine_label labels the bundle that generate_ticket drew

\* the first element is always chosen
random_choice_First(seq) == seq[1]

\* random.choice(seq): the element picked by the generator's next output
random_choice(seq) == seq[1 + (rng % Len(seq))]

\* the bundle reaches one of the two random.choice calls of determine_label
DrawsRandom(d) ==
    LET repo_type == d.repo_details.type
        exposure == d.repo_details.exposure
        criticality == d.repo_details.criticality
        usage == d.investigation.usage_evidence
        rotation == d.investigation.rotation_status
        past_incidents == d.investigation.similar_past_incidents
        commit_age == d.detection.commit_age
        vuln_type == d.category
    IN  IF rotation \in {"Already Rotated", "Revoked"} THEN FALSE
        ELSE IF rotation = "Invalid" THEN FALSE
        ELSE IF repo_type = "Deprecated/Archived" THEN FALSE
        ELSE IF repo_type = "Test/QA Suite"
                /\ \/ past_incidents = "Frequent False Positives in this file"
                   \/ Contains(lower(vuln_type), "example")
                   \/ Contains(lower(vuln_type), "test")
                   \/ exposure = "Private (Internal)" THEN FALSE
        ELSE IF usage = "Active usage in CloudTrail/Logs (Last 1h)"
                /\ exposure = "Public (Open Source)" THEN FALSE
        ELSE IF criticality = "Critical (P0 - Customer Data)"
                /\ usage = "Active usage in CloudTrail/Logs (Last 1h)" THEN FALSE
        ELSE IF d.detection.source = "Manual Bug Bounty" /\ rotation = "Active/Valid" THEN FALSE
        ELSE IF commit_age = "Legacy (3+ years)" /\ usage = "No usage found (90d+)"
                /\ criticality = "Low (P3 - Sandbox)" THEN FALSE
        ELSE IF commit_age = "Stale (> 6 months)" /\ usage = "No usage found (90d+)"
                /\ exposure = "Private (Internal)" THEN TRUE
        ELSE IF repo_type = "Data Science Notebooks"
                /\ past_incidents = "Frequent False Positives in this file" THEN FALSE
        ELSE /\ rotation = "Active/Valid"
             /\ repo_type \in {"Prod Microservice", "Monolith Core",
                               "Infrastructure-as-Code (Terraform/Ansible)"}
             /\ usage \in {"Active usage in CloudTrail/Logs (Last 1h)",
                           "Intermittent usage (Last 7d)"}

determine_label(d) ==
    LET repo_type == d.repo_details.type
        exposure == d.repo_details.exposure
        criticality == d.repo_details.criticality
        usage == d.investigation.usage_evidence
        rotation == d.investigation.rotation_status
        past_incidents == d.investigation.similar_past_incidents
        commit_age == d.detection.commit_age
        vuln_type == d.category
    IN  \* Rule 1
        IF rotation \in {"Already Rotated", "Revoked"} THEN "Mitigated"
        \* Rule 2
        ELSE IF rotation = "Invalid" THEN "False Positive"
        \* Rule 3
        ELSE IF repo_type = "Deprecated/Archived" THEN "Suppressed"
        \* Rule 4
        ELSE IF repo_type = "Test/QA Suite"
                /\ past_incidents = "Frequent False Positives in this file" THEN "False Positive"
        ELSE IF repo_type = "Test/QA Suite"
                /\ \/ Contains(lower(vuln_type), "example")
                   \/ Contains(lower(vuln_type), "test") THEN "False Positive"
        ELSE IF repo_type = "Test/QA Suite" /\ exposure = "Private (Internal)" THEN "Suppressed"
        \* Rule 5
        ELSE IF usage = "Active usage in CloudTrail/Logs (Last 1h)"
                /\ exposure = "Public (Open Source)" THEN "Confirmed"
        \* Rule 6
        ELSE IF criticality = "Critical (P0 - Customer Data)"
                /\ usage = "Active usage in CloudTrail/Logs (Last 1h)" THEN "Confirmed"
        \* Rule 7
        ELSE IF d.detection.source = "Manual Bug Bounty" /\ rotation = "Active/Valid" THEN "Confirmed"
        \* Rule 8
        ELSE IF commit_age = "Legacy (3+ years)" /\ usage = "No usage found (90d+)"
                /\ criticality = "Low (P3 - Sandbox)" THEN "Suppressed"
        \* Rule 9
        ELSE IF commit_age = "Stale (> 6 months)" /\ usage = "No usage found (90d+)"
                /\ exposure = "Private (Internal)"
             THEN random_choice(<<"Suppressed", "Mitigated">>)
        \* Rule 10
        ELSE IF repo_type = "Data Science Notebooks"
                /\ past_incidents = "Frequent False Positives in this file" THEN "False Positive"
        \* Rule 11
        ELSE IF rotation = "Active/Valid"
             THEN IF repo_type \in {"Prod Microservice", "Monolith Core",
                                    "Infrastructure-as-Code (Terraform/Ansible)"}
                  THEN IF usage \in {"Active usage in CloudTrail/Logs (Last 1h)",
                                     "Intermittent usage (Last 7d)"}
                       THEN random_choice(<<"Open", "Confirmed">>)
                       ELSE "Open"
                  ELSE "Open"
        \* Default
        ELSE "Open"

GenSourceValues == {"TruffleHog", "Manual Bug Bounty"}

\* the bundles generate_ticket can draw (one category, one impact radius)
GenBundles ==
    { MkData("AWS Secret Access Key", rt, ex, cr, src, age, us, rot, "Single Service", past) :
        rt \in REPO_TYPES, ex \in EXPOSURE_TYPES, cr \in REPO_CRITICALITIES,
        src \in GenSourceValues, age \in COMMIT_AGES, us \in USAGE_EVIDENCES,
        rot \in ROTATION_STATUSES, past \in SIMILAR_PAST_INCIDENTS }

InitGen ==
    /\ data \in GenBundles
    /\ rng = 0
    /\ gen_seen = {}
    /\ expected_label = NoResult
    /\ correct_label = NoResult
    /\ comment = NoResult
    /\ labels_seen = {}
    /\ comments_seen = {}
    /\ corpus = <<>>
    /\ line_num = 0
    /\ results = EmptyResults
    /\ vstate = "idle"
    /\ accuracy = 0
    /\ f_pos = 0
    /\ output = <<>>
    /\ fixed_count = 0
    /\ fix_total = 0
    /\ fix_log = <<>>
    /\ fstate = "idle"
    /\ fixed_counts = <<>>

\* label = determine_label(data); a random.choice call advances the generator
DetermineLabel ==
    /\ gen_seen' = gen_seen \cup {<<rng, determine_label(data)>>}
    /\ IF DrawsRandom(data) THEN rng' \in 0..1 ELSE UNCHANGED rng
    /\ UNCHANGED <<data, expected_label, correct_label, comment, labels_seen, comments_seen>>
    /\ UNCHANGED validateVars
    /\ UNCHANGED fixVars

NextGen == DetermineLabel \/ RandomDraw

SpecGen == InitGen /\ [][NextGen]_vars

-----------------------------------------------------------------------------
\* Properties of the decision engine (specification Spec)

\* the labels the two engine copies have returned for data so far
Returned == {expected_label, correct_label} \ {NoResult}

Rotation == data.investigation.rotation_status
RepoType == data.repo_details.type
Usage == data.investigation.usage_evidence
Criticality == data.repo_details.criticality
Exposure == data.repo_details.exposure
PastIncidents == data.investigation.similar_past_incidents

ArchivedRepo == Contains("Deprecated", RepoType) \/ Contains("Archived", RepoType)
ActiveUsage == Contains("Active usage", Usage)
HighCriticality == Contains("P0", Criticality) \/ Contains("P1", Criticality)
PublicExposure == Contains("Public", Exposure)
TestSuiteWithFPHistory ==
    RepoType = "Test/QA Suite" /\ PastIncidents = "Frequent False Positives in this file"

\* C1: every call of apply_decision_logic (either copy) on a complete fact
\* bundle, whatever its field values, returns one of the five labels and
\* never raises.
C1_Totality == \A l \in Returned : l \in Labels

\* both copies have answered for a bundle with an out-of-catalog rotation
\* status, repo type and usage evidence
C1_Witness ==
    /\ Rotation = "Expired"
    /\ RepoType = "Test/QA Suite (Nightly)"
    /\ Usage = "Active usage in VPC flow logs (Last 24h)"
    /\ expected_label \in Labels
    /\ correct_label \in Labels

\* C2: a bundle whose rotation status is Revoked or Already Rotated is
\* labelled Mitigated whatever its other fields are.
C2_MitigatedFirst ==
    Rotation \in {"Revoked", "Already Rotated"} => \A l \in Returned : l = "Mitigated"

C2_Witness ==
    /\ Rotation = "Already Rotated"
    /\ ArchivedRepo /\ ActiveUsage /\ PublicExposure /\ Contains("P0", Criticality)
    /\ expected_label = "Mitigated"
    /\ correct_label = "Mitigated"

\* C3 as stated: a bundle with a deprecated/archived repo type is labelled
\* Suppressed independent of rotation status and usage evidence.
C3_ArchivalDominance_Original == ArchivedRepo => \A l \in Returned : l = "Suppressed"

\* C3 amended: a bundle with a deprecated/archived repo type whose rotation
\* status is none of Revoked, Already Rotated, Invalid is labelled Suppressed,
\* independent of usage evidence and of every other field.
C3_ArchivalDominance ==
    (ArchivedRepo /\ Rotation \notin {"Revoked", "Already Rotated", "Invalid"})
        => \A l \in Returned : l = "Suppressed"

C3_Witness ==
    /\ ArchivedRepo /\ Rotation = "Active/Valid" /\ ActiveUsage
    /\ PublicExposure /\ Contains("P0", Criticality)
    /\ expected_label = "Suppressed"
    /\ correct_label = "Suppressed"

\* C4 as stated: a Test/QA Suite bundle with the frequent-false-positive flag
\* and active usage is not labelled False Positive; it is labelled Confirmed.
C4_TestSuiteGuard_Original ==
    (TestSuiteWithFPHistory /\ ActiveUsage)
        => \A l \in Returned : l # "False Positive" /\ l = "Confirmed"

\* C4 amended: a Test/QA Suite bundle with the frequent-false-positive flag,
\* active usage and rotation status Active/Valid is not labelled False
\* Positive; it is labelled Confirmed.
C4_TestSuiteGuard ==
    (TestSuiteWithFPHistory /\ ActiveUsage /\ Rotation = "Active/Valid")
        => \A l \in Returned : l # "False Positive" /\ l = "Confirmed"

C4_Witness ==
    /\ TestSuiteWithFPHistory /\ ActiveUsage /\ Rotation = "Active/Valid"
    /\ expected_label = "Confirmed"
    /\ correct_label = "Confirmed"

\* C5: a bundle whose rotation status is Invalid is labelled False Positive
\* whatever its other fields are (archived repo, active usage, public P0).
C5_InvalidBeforeLaterRules ==
    Rotation = "Invalid" => \A l \in Returned : l = "False Positive"

C5_Witness ==
    /\ Rotation = "Invalid"
    /\ ArchivedRepo /\ ActiveUsage /\ PublicExposure /\ Contains("P0", Criticality)
    /\ expected_label = "False Positive"
    /\ correct_label = "False Positive"

\* C6: a bundle with rotation status Active/Valid, usage evidence containing
\* "Active usage" and a repo type that is not deprecated/archived is labelled
\* Confirmed for every exposure, criticality and past-incident flag.
C6_ActiveUsageConfirms ==
    (Rotation = "Active/Valid" /\ ActiveUsage /\ ~ArchivedRepo)
        => \A l \in Returned : l = "Confirmed"

C6_Witness ==
    /\ Rotation = "Active/Valid" /\ ActiveUsage /\ ~ArchivedRepo
    /\ Exposure = "Private (Internal)"
    /\ Criticality = "Low (P3 - Sandbox)"
    /\ expected_label = "Confirmed"
    /\ correct_label = "Confirmed"

\* C7: a bundle with rotation status Active/Valid, P0 or P1 criticality,
\* public exposure and no active usage is labelled Confirmed unless rule 3 or
\* rule 4 matched first: Suppressed for a deprecated/archived repo, False
\* Positive for a Test/QA Suite with the frequent-false-positive flag.
C7_HighBlastRadius ==
    (Rotation = "Active/Valid" /\ HighCriticality /\ PublicExposure /\ ~ActiveUsage)
        => \A l \in Returned :
              l = IF ArchivedRepo THEN "Suppressed"
                  ELSE IF TestSuiteWithFPHistory THEN "False Positive"
                  ELSE "Confirmed"

\* rule 4 wins over rule 6
C7_Witness ==
    /\ Rotation = "Active/Valid" /\ HighCriticality /\ PublicExposure /\ ~ActiveUsage
    /\ TestSuiteWithFPHistory
    /\ expected_label = "False Positive"
    /\ correct_label = "False Positive"

\* C8 as stated: a bundle whose rotation status is none of the four known
\* values does not raise and is labelled Open.
C8_UnknownRotation_Original ==
    Rotation \notin ROTATION_STATUSES => \A l \in Returned : l = "Open"

\* C8 amended: a bundle whose rotation status is none of the four known
\* values does not raise; it is labelled Suppressed when its repo type is
\* deprecated/archived, False Positive when it is a Test/QA Suite with the
\* frequent-false-positive flag and no active usage, and Open otherwise.
C8_UnknownRotation ==
    Rotation \notin ROTATION_STATUSES
        => \A l \in Returned :
              l = IF ArchivedRepo THEN "Suppressed"
                  ELSE IF TestSuiteWithFPHistory /\ ~ActiveUsage THEN "False Positive"
                  ELSE "Open"

C8_Witness ==
    /\ Rotation = "Expired" /\ ~ArchivedRepo /\ ActiveUsage
    /\ HighCriticality /\ PublicExposure
    /\ expected_label = "Open"
    /\ correct_label = "Open"

-----------------------------------------------------------------------------
\* Purity of the fix-tool functions (specification SpecPure)

-----------------------------------------------------------------------------
\* Properties of the validator (specification SpecValidate)

\* positions of the corpus lines that hold a record
TicketLines == {i \in 1..Len(corpus) : strip(corpus[i].text) # ""}

\* validate_dataset has returned (so every record had the fields it reads)
Returned_v == vstate \in {"returned", "reported"}

Recorded(i) == corpus[i].json.label
Engine(i) == apply_decision_logic(corpus[i].json.data)

\* C10 as stated: on a corpus whose recorded labels all equal the engine's
\* label the validator returns no mismatch, matches = total and the report
\* shows 100% accuracy; with exactly one record whose recorded label is a
\* different string it returns exactly one mismatch entry, carrying that
\* record's ticket_id, the engine's label as expected and the recorded label
\* as actual.
C10_ValidatorCorrect_Original ==
    /\ (vstate = "reported" /\ \A i \in TicketLines : Recorded(i) = Engine(i))
           => /\ results.mismatches = <<>>
              /\ results.matches = results.total
              /\ accuracy = 10000
    /\ Returned_v =>
          \A i \in TicketLines :
              (/\ Recorded(i) # Engine(i)
               /\ \A j \in TicketLines \ {i} : Recorded(j) = Engine(j))
                  => /\ Len(results.mismatches) = 1
                     /\ results.mismatches[1].ticket_id = corpus[i].json.ticket_id
                     /\ results.mismatches[1].expected = Engine(i)
                     /\ results.mismatches[1].actual = Recorded(i)

\* C10 amended: on a corpus whose recorded labels all equal the engine's
\* label the validator returns no mismatch and matches = total, and the
\* report shows 100% accuracy when the corpus holds at least one record (0%
\* when it holds none); with exactly one record whose recorded label differs
\* from the engine's label even ignoring letter case it returns exactly one
\* mismatch entry, carrying that record's ticket_id, the engine's label as
\* expected and the recorded label as actual.
C10_ValidatorCorrect ==
    /\ (Returned_v /\ \A i \in TicketLines : Recorded(i) = Engine(i))
           => /\ results.mismatches = <<>>
              /\ results.matches = results.total
              /\ vstate = "reported"
                    => accuracy = IF TicketLines # {} THEN 10000 ELSE 0
    /\ Returned_v =>
          \A i \in TicketLines :
              (/\ lower(Recorded(i)) # lower(Engine(i))
               /\ \A j \in TicketLines \ {i} : Recorded(j) = Engine(j))
                  => /\ Len(results.mismatches) = 1
                     /\ results.mismatches[1].ticket_id = corpus[i].json.ticket_id
                     /\ results.mismatches[1].expected = Engine(i)
                     /\ results.mismatches[1].actual = Recorded(i)

\* a reported corpus of two records and a blank line in which only the
\* later record's label was changed
C10_Witness ==
    /\ vstate = "reported"
    /\ Len(corpus) = MaxLines
    /\ Cardinality(TicketLines) = 2
    /\ \E i \in TicketLines :
          /\ i > 1
          /\ Recorded(i) = "Open" /\ Engine(i) = "Confirmed"
          /\ \A j \in TicketLines \ {i} : Recorded(j) = Engine(j)
          /\ results.mismatches[1].ticket_id = TicketId(i)
    /\ results.matches = 1

\* records validate_dataset has gone through without raising
Processed == {i \in TicketLines : i <= line_num}

\* a and b are the same text up to the case of their ASCII letters
SameIgnoringCase(a, b) ==
    /\ Len(a) = Len(b)
    /\ \A k \in 1..Len(a) :
          LET x == SubSeq(a, k, k)
              y == SubSeq(b, k, k)
          IN  \/ x = y
              \/ \E j \in 1..26 :
                    {x, y} = {SubSeq(UpperChars, j, j), SubSeq(LowerChars, j, j)}

MatchAt(i) == SameIgnoringCase(Engine(i), Recorded(i))

\* C11: a record counts as a match exactly when the engine's label and the
\* recorded label are equal ignoring letter case, and each record adds one to
\* the correct (match) or incorrect (mismatch) counter of the by_label entry
\* keyed by its recorded label as written, never by the engine's label.
C11_CaseInsensitiveTallies ==
    vstate # "error" =>
        /\ results.matches = Cardinality({i \in Processed : MatchAt(i)})
        /\ DOMAIN results.by_label = {Recorded(i) : i \in Processed}
        /\ \A l \in DOMAIN results.by_label :
              /\ results.by_label[l].correct
                    = Cardinality({i \in Processed : Recorded(i) = l /\ MatchAt(i)})
              /\ results.by_label[l].incorrect
                    = Cardinality({i \in Processed : Recorded(i) = l /\ ~MatchAt(i)})

\* a lower-case "confirmed" matched the engine's "Confirmed" and was tallied
\* under "confirmed"; an "Open" recorded for a Confirmed bundle was tallied as
\* incorrect under "Open"
C11_Witness ==
    /\ Returned_v
    /\ \E i, j \in TicketLines :
          /\ Recorded(i) = "confirmed" /\ Engine(i) = "Confirmed"
          /\ Recorded(j) = "Open" /\ Engine(j) = "Confirmed"
    /\ "Confirmed" \notin DOMAIN results.by_label
    /\ results.by_label["confirmed"].correct = 1
    /\ results.by_label["Open"].incorrect = 1

\* C12: the mismatch list holds one entry per mismatching record, in corpus
\* order (line positions strictly increase), and each entry carries that
\* record's ticket_id, the engine's label, the recorded label and the
\* record's own rotation status, repo type, usage evidence, criticality and
\* past-incident flag.
C12_MismatchList ==
    vstate # "error" =>
        LET m == results.mismatches IN
        /\ Len(m) = Cardinality({i \in Processed : ~MatchAt(i)})
        /\ \A k \in 1..Len(m) :
              /\ m[k].line \in {i \in Processed : ~MatchAt(i)}
              /\ \A k2 \in 1..Len(m) : k < k2 => m[k].line < m[k2].line
              /\ LET t == corpus[m[k].line].json IN
                 /\ DOMAIN m[k] = {"line", "ticket_id", "expected", "actual",
                                   "rotation_status", "repo_type", "usage",
                                   "criticality", "past_incidents"}
                 /\ m[k].ticket_id = t.ticket_id
                 /\ m[k].expected = Engine(m[k].line)
                 /\ m[k].actual = t.label
                 /\ m[k].rotation_status = t.data.investigation.rotation_status
                 /\ m[k].repo_type = t.data.repo_details.type
                 /\ m[k].usage = t.data.investigation.usage_evidence
                 /\ m[k].criticality = t.data.repo_details.criticality
                 /\ m[k].past_incidents = t.data.investigation.similar_past_incidents

\* two mismatching records of different bundles, separated by a matching or
\* blank line
C12_Witness ==
    /\ Returned_v
    /\ Len(results.mismatches) = 2
    /\ results.mismatches[1].line = 1
    /\ results.mismatches[2].line = 3
    /\ results.mismatches[1].repo_type = "Internal Tooling"
    /\ results.mismatches[2].repo_type = "Prod Microservice"

\* the record at line i lacks a field the engine reads, label or ticket_id
Malformed(i) ==
    LET t == corpus[i].json IN
    \/ "data" \notin DOMAIN t
    \/ ~EngineKeysPresent(t.data)
    \/ "label" \notin DOMAIN t
    \/ "ticket_id" \notin DOMAIN t

\* C13: when validate_dataset reaches a record that lacks a field the engine
\* reads, label or ticket_id, it ends in an error at that record; it never
\* goes on past it, so the record is in no returned report as a match or a
\* mismatch.
C13_MalformedFatal ==
    \A i \in TicketLines :
        (i <= line_num /\ Malformed(i)) => (vstate = "error" /\ line_num = i)

\* sum of one counter over the by_label entries with keys in S
RECURSIVE SumCounter(_, _, _)
SumCounter(by_label, S, field) ==
    IF S = {} THEN 0
    ELSE LET l == CHOOSE x \in S : TRUE
         IN  by_label[l][field] + SumCounter(by_label, S \ {l}, field)

\* C19: after any prefix of a corpus processed without error, total equals
\* matches plus the number of mismatch entries, the correct counters sum to
\* matches, the incorrect counters sum to the number of mismatch entries, and
\* total is the number of non-blank lines processed; blank lines are counted
\* nowhere but advance the line position stored in mismatch entries.
C19_Accounting ==
    vstate # "error" =>
        /\ results.total = results.matches + Len(results.mismatches)
        /\ SumCounter(results.by_label, DOMAIN results.by_label, "correct")
              = results.matches
        /\ SumCounter(results.by_label, DOMAIN results.by_label, "incorrect")
              = Len(results.mismatches)
        /\ results.total = Cardinality(Processed)
        /\ \A k \in 1..Len(results.mismatches) :
              results.mismatches[k].line \in Processed

\* two blank lines, then a mismatching record reported at line 3
C19_Witness ==
    /\ vstate = "running"
    /\ line_num = 3
    /\ strip(corpus[1].text) = "" /\ strip(corpus[2].text) = ""
    /\ results.total = 1
    /\ Len(results.mismatches) = 1
    /\ results.mismatches[1].line = 3

-----------------------------------------------------------------------------
\* Properties of the two engine copies and the synthesizer (specification Spec)

\* C17: for every fact bundle the engine copy of validate_tickets.py and the
\* copy of fix_tickets.py return the same label.
C17_CopiesAgree ==
    (expected_label # NoResult /\ correct_label # NoResult)
        => expected_label = correct_label

\* a live credential in a production repo, where is_prod_or_monolith holds
\* and rule 7 decides
C17_Witness ==
    /\ Rotation = "Active/Valid" /\ RepoType = "Prod Microservice"
    /\ ~ActiveUsage /\ ~PublicExposure
    /\ expected_label = "Open"
    /\ correct_label = "Open"

\* s ends with suffix
EndsWith(s, suffix) ==
    /\ Len(suffix) <= Len(s)
    /\ SubSeq(s, Len(s) - Len(suffix) + 1, Len(s)) = suffix

\* the clauses of a table whose trigger holds, in order, joined by one space
RECURSIVE Paragraph(_)
Paragraph(table) ==
    IF table = <<>> THEN ""
    ELSE LET rest == Paragraph(Tail(table)) IN
         IF ~table[1][1] THEN rest
         ELSE IF rest = "" THEN table[1][2]
         ELSE table[1][2] \o " " \o rest

\* the clause table of the reasoning section, by label
ClauseTable(label) ==
    IF label = "Mitigated" THEN
        << <<Rotation = "Revoked", "Credential has been revoked and is no longer valid.">>,
           <<Rotation = "Already Rotated", "Credential has already been rotated; new key is in place.">>,
           <<TRUE, "No further action required. Verify rotation in key management system.">> >>
    ELSE IF label = "False Positive" THEN
        << <<Rotation = "Invalid", "Credential validation failed - not a valid secret format.">>,
           <<PastIncidents = "Frequent False Positives in this file", "File has history of false positive detections.">>,
           <<Contains("Test", RepoType) \/ Contains("QA", RepoType), "Test fixture or example data - not a real credential.">>,
           <<TRUE, "No remediation required. Consider adding to allowlist.">> >>
    ELSE IF label = "Suppressed" THEN
        << <<ArchivedRepo, "Repository is archived/deprecated with no active deployments.">>,
           <<Contains("No usage found", Usage), "No usage detected in 90+ days.">>,
           <<TRUE, "Risk accepted per security policy. Document and close.">> >>
    ELSE IF label = "Confirmed" THEN
        << <<TRUE, "High-confidence active threat detected.">>,
           <<ActiveUsage, "Recent usage logs confirm the credential is actively being used.">>,
           <<PublicExposure, "Public exposure increases risk of credential harvesting.">>,
           <<Contains("P0", Criticality), "Repository handles customer data - immediate rotation required.">>,
           <<TRUE, "Impact radius: " \o data.investigation.impact_radius \o ". Initiate incident response protocol.">> >>
    ELSE
        << <<TRUE, "Valid credential requiring remediation.">>,
           <<TRUE, "Credential is still active and has not been rotated.">>,
           <<Contains("Prod", RepoType) \/ Contains("Monolith", RepoType), "Found in " \o RepoType \o " - prioritize based on " \o Criticality \o ".">>,
           <<TRUE, "Assign to repository owner for rotation.">> >>

\* C15: for every bundle and the label the engine gives it, the reasoning
\* section of generate_comment is exactly the clauses of the table for that
\* label, in the table's order, a conditional clause being present if and
\* only if its trigger holds on the bundle.
C15_ReasoningTable ==
    comment # NoResult =>
        EndsWith(comment, "\nReasoning: " \o Paragraph(ClauseTable(correct_label)))

\* Confirmed by rule 6: the active-usage and P0 clauses are absent, the
\* public-exposure clause is present and the impact-radius clause is last
C15_Witness ==
    /\ correct_label = "Confirmed"
    /\ ~ActiveUsage /\ PublicExposure /\ Contains("P1", Criticality)
    /\ EndsWith(comment, "\nReasoning: High-confidence active threat detected. Public exposure increases risk of credential harvesting. Impact radius: Org Wide. Initiate incident response protocol.")

-----------------------------------------------------------------------------
\* Properties of the fix tool (specification SpecFix)

\* the input line that the k-th written ticket was read from
NthTicketLine(k) ==
    CHOOSE i \in TicketLines : Cardinality({j \in TicketLines : j <= i}) = k

\* fix_dataset is reading corpus (it has not been replaced by the output)
FixReading == fstate \in {"running", "returned", "error"}

\* the output ticket differs from the input ticket in label or explanation
Rewritten(in, out) ==
    \/ "label" \notin DOMAIN in
    \/ "ideal_llm_comment" \notin DOMAIN in
    \/ out.label # in.label
    \/ out.ideal_llm_comment # in.ideal_llm_comment

\* the "Fixed <ticket_id>: ..." line of the ticket was printed
Logged(in) ==
    /\ "ticket_id" \in DOMAIN in
    /\ \E e \in 1..Len(fix_log) : fix_log[e].ticket_id = in.ticket_id

\* C14: every ticket that fix_dataset writes with a label or an explanation
\* different from the input ticket's is logged as a fix and counted in
\* fixed_count; a ticket that is not logged is written with both unchanged.
C14_NoSilentCorrections ==
    FixReading =>
        /\ \A k \in 1..Len(output) :
              Rewritten(corpus[NthTicketLine(k)].json, output[k].json)
                  => Logged(corpus[NthTicketLine(k)].json)
        /\ Cardinality({k \in 1..Len(output) :
              Rewritten(corpus[NthTicketLine(k)].json, output[k].json)}) <= fixed_count

\* every record of the corpus has the fields fix_dataset and validate_dataset read
WellFormedCorpus ==
    \A i \in TicketLines :
        LET t == corpus[i].json IN
        /\ {"ticket_id", "data", "label", "ideal_llm_comment"} \subseteq DOMAIN t
        /\ EngineKeysPresent(t.data)
        /\ CommentKeysPresent(t.data)

\* C18: on a well-formed corpus fix_dataset returns, having written one ticket
\* per non-blank input line, in input order, with ticket_id and data unchanged
\* and the label the engine gives for data; validate_dataset on that output
\* returns no mismatch; and fix_dataset run again on that output reports 0
\* fixed tickets and writes the same corpus.
C18_FixThenValidate ==
    /\ (FixReading /\ WellFormedCorpus) => fstate # "error"
    /\ (fstate = "returned" /\ WellFormedCorpus) =>
          /\ Len(output) = Cardinality(TicketLines)
          /\ \A k \in 1..Len(output) :
                LET in == corpus[NthTicketLine(k)].json
                    out == output[k].json IN
                /\ out.ticket_id = in.ticket_id
                /\ out.data = in.data
                /\ out.label = fix_apply_decision_logic(in.data)
    /\ (fstate = "replaced" /\ vstate # "idle") => vstate # "error"
    /\ (fstate = "replaced" /\ Returned_v) =>
          /\ results.mismatches = <<>>
          /\ results.total = Len(corpus)
          /\ results.matches = results.total
    /\ (fstate = "returned" /\ Len(fixed_counts) > 1) =>
          /\ fixed_count = 0
          /\ output = corpus

\* a three-ticket corpus with two wrong labels was fixed, the output was
\* validated, and the second fix run has returned
C18_Witness ==
    /\ fstate = "returned"
    /\ fixed_counts = <<2, 0>>
    /\ vstate = "reported"
    /\ Len(output) = 3

-----------------------------------------------------------------------------
\* Properties of the generator (specification SpecGen)

\* the labels determine_label has returned for the bundle, and the generator
\* outputs it returned them under
GenLabels == {p[2] : p \in gen_seen}
GenDraws == {p[1] : p \in gen_seen}

\* one of the generator rules before rule 9 matches the bundle
MatchedBeforeRule9(d) ==
    \/ d.investigation.rotation_status \in {"Already Rotated", "Revoked", "Invalid"}
    \/ d.repo_details.type = "Deprecated/Archived"
    \/ /\ d.repo_details.type = "Test/QA Suite"
       /\ \/ d.investigation.similar_past_incidents = "Frequent False Positives in this file"
          \/ d.repo_details.exposure = "Private (Internal)"
    \/ /\ d.investigation.usage_evidence = "Active usage in CloudTrail/Logs (Last 1h)"
       /\ \/ d.repo_details.exposure = "Public (Open Source)"
          \/ d.repo_details.criticality = "Critical (P0 - Customer Data)"
    \/ /\ d.detection.source = "Manual Bug Bounty"
       /\ d.investigation.rotation_status = "Active/Valid"
    \/ /\ d.detection.commit_age = "Legacy (3+ years)"
       /\ d.investigation.usage_evidence = "No usage found (90d+)"
       /\ d.repo_details.criticality = "Low (P3 - Sandbox)"

\* stale commit, no usage in 90 days, private exposure
StaleUnusedPrivate(d) ==
    /\ d.detection.commit_age = "Stale (> 6 months)"
    /\ d.investigation.usage_evidence = "No usage found (90d+)"
    /\ d.repo_details.exposure = "Private (Internal)"

ReachesRule9(d) == StaleUnusedPrivate(d) /\ ~MatchedBeforeRule9(d)

\* Active/Valid, production, monolith or infrastructure-as-code repo, active
\* or intermittent usage, and no earlier rule matched
ReachesRule11Choice(d) ==
    /\ d.investigation.rotation_status = "Active/Valid"
    /\ d.repo_details.type \in {"Prod Microservice", "Monolith Core",
                                "Infrastructure-as-Code (Terraform/Ansible)"}
    /\ d.investigation.usage_evidence \in {"Active usage in CloudTrail/Logs (Last 1h)",
                                           "Intermittent usage (Last 7d)"}
    /\ ~MatchedBeforeRule9(d)
    /\ ~StaleUnusedPrivate(d)
    /\ ~ /\ d.repo_details.type = "Data Science Notebooks"
         /\ d.investigation.similar_past_incidents = "Frequent False Positives in this file"

====
